---- MODULE Spec2Model ----
(***************************************************************************)
(* DeepFry Studio: the frame-request scheduler (queueRender / the          *)
(* animation-frame callback), the React state it reads, and the render     *)
(* pipeline (renderFrame) of src/unnamed/part_000; of src/src/App.tsx and  *)
(* src/unnamed/part_001, the parts in which they differ from it.           *)
(*                                                                         *)
(* React semantics the model keeps:                                        *)
(*  - every useState value is a constant of the render (commit) that       *)
(*    produced it; the functions queueRender and renderFrame are created   *)
(*    anew by every render and close over that render's values;            *)
(*  - the useRef cells (isScrubbingRef, rafRef, wantFullRef, canvasRef)    *)
(*    are shared by all renders and read at the time of use;               *)
(*  - the setX calls of one handler are batched into one commit at the     *)
(*    end of the handler; the passive effects of a commit run afterwards,  *)
(*    before any later handler, with that commit's closure.                *)
(*                                                                         *)
(* Units: exposureEV is held in tenths of a stop (0.2 EV = 2) and noise    *)
(* in hundredths (0.08 = 8); the pixel arithmetic is fixed point.          *)
(***************************************************************************)
EXTENDS Integers, Sequences, FiniteSets, TLC

VARIABLES
    imageBitmap,      \* useState: NoImage (null) or [width, height] of the decoded image
    params,           \* useState: brightness .. posterize and preset
    outW, outH,       \* useState: output sizing
    isScrubbingRef,   \* useRef(false)
    rafRef,           \* useRef(null): 0 (null) or the handle of the armed callback
    wantFullRef,      \* useRef(false)
    frameCallbacks,   \* the browser's list of armed animation-frame callbacks,
                      \* each the closure (render) whose renderFrame it will call
    pendingEffects,   \* passive effects of the last commit that have not run yet
    surface,          \* the visible canvas (canvasRef.current) and what it shows
    burst,            \* history: the queueRender calls since the last refresh
                      \*   (calls, callbacks armed, any requestFull, any end of a scrub)
    lastFire,         \* history: what the last display refresh did
    owedFull,         \* history: a full request was consumed by a render that was not full
    probe,            \* one pixel of the graded working buffer, followed through the
                      \*   pixel pass: [on, r, g, b, a] and the Math.random() draw u
    exported          \* what the last click on Download did: a file, an alert, or nothing

vars == <<imageBitmap, params, outW, outH, isScrubbingRef, rafRef, wantFullRef,
          frameCallbacks, pendingEffects, surface, burst, lastFire, owedFull,
          probe, exported>>

-----------------------------------------------------------------------------
(* Bounds of the model *)

\* queueRender calls counted per refresh interval (the counter saturates here)
MaxCalls == 3

\* image sides are tried this far from 1, from max and from twice max
DimSpread == 1

-----------------------------------------------------------------------------
(* ParameterSet *)

PresetType == {"none", "film", "lofi", "vhs", "ultra"}

ParamFields == {"brightness", "contrast", "saturation", "hue", "exposureEV",
                "burn", "noise", "posterize"}

\* useState initial values, and the values handleReset sets
Defaults ==
    [brightness |-> 120, contrast |-> 120, saturation |-> 140, hue |-> 0,
     exposureEV |-> 0, burn |-> 35, noise |-> 8, posterize |-> 0,
     preset |-> "none"]

\* mutant: noise is reset to 8 in place of 0.08
ResetState_NoiseAsPercent(cur) ==
    [cur EXCEPT !.brightness = 120, !.contrast = 120, !.saturation = 140,
                !.hue = 0, !.exposureEV = 0, !.burn = 35, !.noise = 800,
                !.posterize = 0, !.preset = "none"]

\* the state after the nine setX calls of handleReset
ResetState(cur) ==
    [cur EXCEPT !.brightness = 120, !.contrast = 120, !.saturation = 140,
                !.hue = 0, !.exposureEV = 0, !.burn = 35, !.noise = 8,
                !.posterize = 0, !.preset = "none"]

\* mutant: only setPreset(p) takes effect
PresetState_PresetOnly(cur, p) == [cur EXCEPT !.preset = p]

\* the state after the setX calls of applyPreset(p) (handleReset for "none")
PresetState(cur, p) ==
    CASE p = "film" ->
           [brightness |-> 115, contrast |-> 130, saturation |-> 150, hue |-> 10,
            exposureEV |-> 2, burn |-> 50, noise |-> 12, posterize |-> 0,
            preset |-> p]
      [] p = "lofi" ->
           [brightness |-> 110, contrast |-> 95, saturation |-> 70, hue |-> 8,
            exposureEV |-> -1, burn |-> 20, noise |-> 6, posterize |-> 0,
            preset |-> p]
      [] p = "vhs" ->
           [brightness |-> 115, contrast |-> 130, saturation |-> 120, hue |-> 0,
            exposureEV |-> 0, burn |-> 30, noise |-> 8, posterize |-> 0,
            preset |-> p]
      [] p = "ultra" ->
           [brightness |-> 200, contrast |-> 200, saturation |-> 220, hue |-> 20,
            exposureEV |-> 8, burn |-> 75, noise |-> 20, posterize |-> 6,
            preset |-> p]
      [] p = "none" -> ResetState([cur EXCEPT !.preset = p])
      [] OTHER -> [cur EXCEPT !.preset = p]

\* the sliders' min and max attributes
SliderMin ==
    [brightness |-> 50, contrast |-> 50, saturation |-> 0, hue |-> -180,
     exposureEV |-> -20, burn |-> 0, noise |-> 0, posterize |-> 0]
SliderMax ==
    [brightness |-> 400, contrast |-> 250, saturation |-> 300, hue |-> 180,
     exposureEV |-> 20, burn |-> 100, noise |-> 100, posterize |-> 8]

-----------------------------------------------------------------------------
(* React: closures, commits and effects *)

\* imageBitmap = null; a decoded ImageBitmap has width >= 1 and height >= 1
NoImage == [width |-> 0, height |-> 0]

\* The values a render closes over: what its queueRender / renderFrame see.
Closure == [imageBitmap |-> imageBitmap, params |-> params, outW |-> outW, outH |-> outH]

\* dependency lists of the four effects
ParamDeps == {"brightness", "contrast", "saturation", "hue", "exposureEV", "burn", "preset"}
HeavyDeps == {"noise", "posterize"}

\* the effects React schedules for a commit that replaces closure old by new
EffectsOf(old, new) ==
    (IF old.imageBitmap # new.imageBitmap THEN {"image"} ELSE {})
    \cup (IF \E f \in ParamDeps : old.params[f] # new.params[f] THEN {"params"} ELSE {})
    \cup (IF \E f \in HeavyDeps : old.params[f] # new.params[f] THEN {"heavy"} ELSE {})
    \cup (IF old.outW # new.outW \/ old.outH # new.outH THEN {"size"} ELSE {})

-----------------------------------------------------------------------------
(* RenderScheduler *)

Sched == [rafRef |-> rafRef, wantFullRef |-> wantFullRef,
          frameCallbacks |-> frameCallbacks, burst |-> burst]

Sat(n) == IF n < MaxCalls THEN n + 1 ELSE MaxCalls

\* mutant: the flag is overwritten by the latest request instead of OR-ed
WantFullAfter_Overwrite(want, requestFull) == requestFull

\* if (requestFull) wantFullRef.current = true
WantFullAfter(want, requestFull) == want \/ requestFull

\* mutant: the early return is missing
AlreadyArmed_Never(ref) == FALSE

\* if (rafRef.current != null) return
AlreadyArmed(ref) == ref # 0

\* mutant: the handle is set but no callback is registered
queueRender_NoCallback(s, requestFull, cl) ==
    [s EXCEPT !.wantFullRef = @ \/ requestFull, !.rafRef = 1,
              !.burst = [@ EXCEPT !.calls = Sat(@), !.full = @ \/ requestFull]]

\* mutant: a full request is recorded without arming a callback
queueRender_FullNotArmed(s, requestFull, cl) ==
    LET b == [s.burst EXCEPT !.calls = Sat(@), !.full = @ \/ requestFull]
    IN  IF requestFull \/ AlreadyArmed(s.rafRef)
        THEN [s EXCEPT !.wantFullRef = @ \/ requestFull, !.burst = b]
        ELSE [s EXCEPT !.rafRef = Len(s.frameCallbacks) + 1,
                       !.frameCallbacks = Append(@, cl),
                       !.burst = [b EXCEPT !.arms = Sat(@)]]

\* queueRender(requestFull), called from the render with closure cl
queueRender(s, requestFull, cl) ==
    LET w == WantFullAfter(s.wantFullRef, requestFull)
        b == [s.burst EXCEPT !.calls = Sat(@), !.full = @ \/ requestFull]
    IN  IF AlreadyArmed(s.rafRef)
        THEN [s EXCEPT !.wantFullRef = w, !.burst = b]
        ELSE [s EXCEPT !.wantFullRef = w,
                       !.rafRef = Len(s.frameCallbacks) + 1,
                       !.frameCallbacks = Append(@, cl),
                       !.burst = [b EXCEPT !.arms = Sat(@)]]

SetSched(s) ==
    /\ rafRef' = s.rafRef
    /\ wantFullRef' = s.wantFullRef
    /\ frameCallbacks' = s.frameCallbacks
    /\ burst' = s.burst

-----------------------------------------------------------------------------
(* Render pipeline: renderFrame *)

Max(a, b) == IF a >= b THEN a ELSE b
Min(a, b) == IF a <= b THEN a ELSE b

\* Canvas sizes c at which the double product c * 0.35 lies just below the
\* integer 35c/100 (0.35 is not a binary fraction): Math.floor then gives one
\* less than the exact quotient.  All such c up to 4000.
Short35 == {180, 340, 360, 660, 680, 700, 720, 1300, 1320, 1340, 1360, 1380,
            1400, 1420, 1440, 1460, 2580, 2600, 2620, 2640, 2660, 2680, 2700,
            2720, 2740, 2760, 2780, 2800, 2820, 2840, 2860, 2880, 2900, 2920}

\* Math.floor(c * previewScale), previewScale = 0.35 or 1 held in percent
FloorScaled(c, previewScale) ==
    IF previewScale = 100 THEN c
    ELSE (c * previewScale) \div 100 - (IF c \in Short35 THEN 1 ELSE 0)

\* mutant: the preview scale is not applied
PreviewScale_Always1(scrubbing) == 100

\* isScrubbingRef.current ? 0.35 : 1, in percent
PreviewScale(scrubbing) == IF scrubbing THEN 35 ELSE 100

\* mutant: heavy passes run only when the callback asks for them
AllowHeavy_OnlyForced(runHeavyPasses, scrubbing) == runHeavyPasses

\* mutant: heavy passes are always allowed
AllowHeavy_Always(runHeavyPasses, scrubbing) == TRUE

\* allowHeavy = runHeavyPasses || !isScrubbingRef.current
AllowHeavy(runHeavyPasses, scrubbing) == runHeavyPasses \/ ~scrubbing

\* mutant: burn does not trigger the pixel pass
PixelPassRuns_NoBurn(p, allowHeavy) ==
    allowHeavy \/ p.exposureEV # 0 \/ p.brightness > 200

\* if (allowHeavy || exposureEV !== 0 || brightness > 200 || burn > 0)
PixelPassRuns(p, allowHeavy) ==
    allowHeavy \/ p.exposureEV # 0 \/ p.brightness > 200 \/ p.burn > 0

\* burnAmt = Math.max(0, Math.min(1, burn / 100)), in percent
BurnAmt(p) == Max(0, Min(100, p.burn))

\* overlay strengths are held in 1/10000
Ov(op, strength) == [op |-> op, strength |-> strength]

\* 4) Overlays: the preset's list
PresetOverlays(preset) ==
    (IF preset = "film" THEN <<Ov("Vignette", 5000), Ov("FilmBurn", 8000)>> ELSE <<>>)
    \o (IF preset = "lofi" THEN <<Ov("Vignette", 7000)>> ELSE <<>>)
    \o (IF preset = "vhs" THEN <<Ov("Scanlines", 1800), Ov("ChromAb", 3500)>> ELSE <<>>)
    \o (IF preset = "ultra"
        THEN <<Ov("Vignette", 8500), Ov("FilmBurn", 10000),
               Ov("Scanlines", 2500), Ov("ChromAb", 3500)>>
        ELSE <<>>)

\* mutant: the warm edge glow is drawn before the burn vignette
BurnOverlays_WarmFirst(burn) ==
    IF burn > 0 THEN <<Ov("WarmEdgeBurn", 50 * burn), Ov("Vignette", 28 * burn)>>
    ELSE <<>>

\* if (burn > 0) { drawVignette(.. 0.28 * (burn / 100)); drawWarmEdgeBurn(.. 0.5 * (burn / 100)) }
BurnOverlays(burn) ==
    IF burn > 0 THEN <<Ov("Vignette", 28 * burn), Ov("WarmEdgeBurn", 50 * burn)>>
    ELSE <<>>

-----------------------------------------------------------------------------
(* The per-pixel loop of the pixel pass.  Channel values are held in 1/100;   *)
(* every product is cut to that precision, so that a written value may differ *)
(* by one level from the double computation where burn > 0 or the gain is not *)
(* a power of two.  All magnitudes stay below 2^31, so that v | 0 is the      *)
(* truncation towards zero.                                                   *)

\* no pixel is followed
NoProbe == [on |-> FALSE, r |-> 0, g |-> 0, b |-> 0, a |-> 0, u |-> 0]

\* the Download button was not clicked yet
NoExport ==
    [clicked |-> FALSE, variant |-> "", zeroArea |-> FALSE, file |-> FALSE,
     notice |-> FALSE]

\* truncation towards zero of x / d (d > 0)
Trunc(x, d) == IF x >= 0 THEN x \div d ELSE -((-x) \div d)

\* mutant: no exposure gain
ExposureGain_Unit(ev) == 1000

\* Math.pow(2, exposureEV) in 1/1000, for exposureEV = -2.0, -1.9, .. 2.0
ExposureGain(ev) ==
    <<250, 268, 287, 308, 330, 354, 379, 406, 435, 467, 500, 536, 574, 616,
      660, 707, 758, 812, 871, 933, 1000, 1072, 1149, 1231, 1320, 1414, 1516,
      1625, 1741, 1866, 2000, 2144, 2297, 2462, 2639, 2828, 3031, 3249, 3482,
      3732, 4000>>[ev + 21]

\* mutant: the pixel pass applies the whole brightness again
ExtraGain_Full(brightness) == brightness * 10

\* Math.max(1, brightness / 200) in 1/1000
ExtraGain(brightness) == Max(1000, brightness * 5)

\* d[i] * exposureGain * extraGain, d in 0..255, result in 1/100
Gained(d, p) ==
    (((d * ExposureGain(p.exposureEV)) \div 10) * ExtraGain(p.brightness)) \div 1000

\* L = 0.2126 * r + 0.7152 * g + 0.0722 * b
Luma(c) == (2126 * c.r + 7152 * c.g + 722 * c.b) \div 10000

\* mutant: no highlight is found
HighlightMask_Zero(L) == 0

\* t = Math.min(1, Math.max(0, (L - 110) / 145)) in 1/1000
HighlightMask(L) == Min(1000, Max(0, ((L - 11000) * 1000) \div 14500))

\* if (burnAmt > 0) { .. }: the highlight push, the warm boost and the blue cut
Burned(c, p) ==
    LET burnAmt == BurnAmt(p)
        t == HighlightMask(Luma(c))
    IN  IF burnAmt > 0
        THEN [r |-> (c.r * (1000 + (115 * burnAmt * t) \div 10000)) \div 1000
                    + (255 * 27 * burnAmt * t) \div 100000,
              g |-> (c.g * (1000 + (7475 * burnAmt * t) \div 1000000)) \div 1000
                    + (((34425 * burnAmt) \div 10) * t) \div 100000,
              b |-> (c.b * (1000 + (4025 * burnAmt * t) \div 1000000)) \div 1000
                    - (1428 * burnAmt * t) \div 100000]
        ELSE c

\* mutant: the value is not quantized
RoundStep_Identity(v, posterize) == v

\* Math.round(v / step) * step with step = 255 / (posterize - 1)
RoundStep(v, posterize) ==
    (((2 * v * (posterize - 1) + 25500) \div 51000) * 25500) \div (posterize - 1)

\* n = (Math.random() - 0.5) * 2 * noiseAmp, noiseAmp = noise * 255;
\* u is (Math.random() - 0.5) * 2 in 1/1000, noise in 1/100
NoiseOffset(u, noise) == Trunc(u * noise * 255, 1000)

\* mutant: the upper limit is missing
clamp_NoCeiling(v) == Max(0, Trunc(v, 100))

\* clamp(v) = Math.max(0, Math.min(255, v | 0))
clamp(v) == Max(0, Min(255, Trunc(v, 100)))

\* one iteration of the loop over d, for the pixel px = [r, g, b]
TonalPixel(px, p, allowHeavy, u) ==
    LET gained == [r |-> Gained(px.r, p), g |-> Gained(px.g, p), b |-> Gained(px.b, p)]
        burned == Burned(gained, p)
        doPosterize == p.posterize > 1 /\ allowHeavy
        doNoise == p.noise > 0 /\ allowHeavy
        post == IF doPosterize
                THEN [r |-> RoundStep(burned.r, p.posterize),
                      g |-> RoundStep(burned.g, p.posterize),
                      b |-> RoundStep(burned.b, p.posterize)]
                ELSE burned
        n == IF doNoise THEN NoiseOffset(u, p.noise) ELSE 0
    IN  [r |-> clamp(post.r + n), g |-> clamp(post.g + n), b |-> clamp(post.b + n)]

\* mutant: the pass writes an opaque pixel
PixelAlpha_Opaque(px) == 255

\* d[i + 3] after the loop: the loop writes d[i], d[i + 1] and d[i + 2] only
PixelAlpha(px) == px.a

\* mutant: the lower limit of the bloom buffer is missing
BloomSide_NoFloor(w) == (w * 25) \div 100

\* bw = Math.max(1, (W * bloomScale) | 0), bloomScale = 0.25
BloomSide(w) == Max(1, (w * 25) \div 100)

\* canvasRef.current = null: the <canvas> is rendered only while an image is loaded;
\* by names the source file whose renderFrame drew the canvas
Unmounted ==
    [mounted |-> FALSE, drawn |-> FALSE, width |-> 0, height |-> 0,
     src |-> NoImage, used |-> Defaults, W |-> 0, H |-> 0, previewScale |-> 0,
     cssB |-> 0, allowHeavy |-> FALSE, passes |-> <<>>, bw |-> 0, bh |-> 0,
     overlays |-> <<>>, ovW |-> 0, ovH |-> 0,
     sample |-> [r |-> 0, g |-> 0, b |-> 0], alpha |-> 0, by |-> ""]

\* a newly mounted <canvas>: the HTML default size 300 x 150, nothing drawn
BlankCanvas == [Unmounted EXCEPT !.mounted = TRUE, !.width = 300, !.height = 150]

\* renderFrame(runHeavyPasses) of the render with closure cl; surf is canvasRef.current
renderFrame(cl, runHeavyPasses, scrubbing, surf) ==
    IF cl.imageBitmap = NoImage THEN surf
    ELSE IF ~surf.mounted THEN surf
    ELSE
    LET p == cl.params
        CW == IF cl.outW # 0 THEN cl.outW ELSE cl.imageBitmap.width
        CH == IF cl.outH # 0 THEN cl.outH ELSE cl.imageBitmap.height
        previewScale == PreviewScale(scrubbing)
        W == Max(1, FloorScaled(CW, previewScale))
        H == Max(1, FloorScaled(CH, previewScale))
        allowHeavy == AllowHeavy(runHeavyPasses, scrubbing)
        pixel == PixelPassRuns(p, allowHeavy)
        doPosterize == p.posterize > 1 /\ allowHeavy
        doNoise == p.noise > 0 /\ allowHeavy
        bloom == BurnAmt(p) > 0 /\ allowHeavy
    IN  [mounted |-> TRUE, drawn |-> TRUE, width |-> CW, height |-> CH,
         src |-> cl.imageBitmap, used |-> p, W |-> W, H |-> H,
         previewScale |-> previewScale,
         cssB |-> Min(p.brightness, 200),
         allowHeavy |-> allowHeavy,
         passes |-> <<"ColorGrade">>
                    \o (IF pixel THEN <<"Tonal">> ELSE <<>>)
                    \o (IF pixel /\ doPosterize THEN <<"Posterize">> ELSE <<>>)
                    \o (IF pixel /\ doNoise THEN <<"Noise">> ELSE <<>>)
                    \o (IF pixel /\ bloom THEN <<"Bloom">> ELSE <<>>)
                    \o <<"Blit">>,
         bw |-> IF pixel /\ bloom THEN BloomSide(W) ELSE 0,
         bh |-> IF pixel /\ bloom THEN BloomSide(H) ELSE 0,
         overlays |-> PresetOverlays(p.preset) \o BurnOverlays(p.burn),
         ovW |-> CW, ovH |-> CH,
         sample |-> IF ~probe.on THEN Unmounted.sample
                    ELSE IF pixel THEN TonalPixel(probe, p, allowHeavy, probe.u)
                    ELSE [r |-> probe.r, g |-> probe.g, b |-> probe.b],
         alpha |-> IF ~probe.on THEN Unmounted.alpha
                   ELSE IF pixel THEN PixelAlpha(probe)
                   ELSE probe.a,
         by |-> "part_000"]

-----------------------------------------------------------------------------
(* The animation-frame callback armed by queueRender *)

\* mutant: the negation of the scrubbing test is lost
RunFull_Inverted(want, scrubbing) == want /\ scrubbing

\* mutant: the scrubbing test is missing
RunFull_FlagOnly(want, scrubbing) == want

\* const runFull = wantFullRef.current && !isScrubbingRef.current
RunFull(want, scrubbing) == want /\ ~scrubbing

\* mutant: the flag survives the fire
WantFullCleared_Kept(want) == want

\* wantFullRef.current = false
WantFullCleared(want) == FALSE

NoFire ==
    [fired |-> FALSE, renders |-> 0, arms |-> 0, coalesced |-> FALSE,
     full |-> FALSE, ended |-> FALSE, want |-> FALSE, scrubbing |-> FALSE,
     runFull |-> FALSE, drew |-> FALSE, fresh |-> FALSE, scale |-> 0,
     heavy |-> FALSE, owedBefore |-> FALSE, hadImage |-> FALSE]

\* In the record of a fire, hadImage tells whether the render that armed the
\* callback had an image.
\* One callback: () => { rafRef.current = null; runFull = ..; wantFullRef.current = false;
\* renderFrame(runFull) }, with renderFrame that of the closure cl that armed it.
\* st carries the refs and the canvas through the callbacks of one refresh.
FireCallback(st, cl) ==
    LET runFull == RunFull(st.wantFullRef, isScrubbingRef)
        drew == cl.imageBitmap # NoImage /\ st.surface.mounted
        surf == renderFrame(cl, runFull, isScrubbingRef, st.surface)
    IN  [rafRef |-> 0,
         wantFullRef |-> WantFullCleared(st.wantFullRef),
         surface |-> surf,
         owed |-> IF runFull THEN FALSE ELSE st.owed \/ burst.full,
         fire |-> [fired |-> TRUE,
                   renders |-> st.fire.renders + 1,
                   arms |-> burst.arms,
                   coalesced |-> burst.calls >= 2,
                   full |-> burst.full,
                   ended |-> burst.ended,
                   want |-> st.wantFullRef,
                   scrubbing |-> isScrubbingRef,
                   runFull |-> runFull,
                   drew |-> drew,
                   fresh |-> cl = Closure,
                   scale |-> IF drew THEN surf.previewScale ELSE 0,
                   heavy |-> drew /\ surf.allowHeavy,
                   owedBefore |-> st.owed,
                   hadImage |-> cl.imageBitmap # NoImage]]

RECURSIVE RunCallbacks(_, _)
RunCallbacks(st, cbs) ==
    IF cbs = <<>> THEN st
    ELSE RunCallbacks(FireCallback(st, Head(cbs)), Tail(cbs))

NoBurst == [calls |-> 0, arms |-> 0, full |-> FALSE, ended |-> FALSE]

-----------------------------------------------------------------------------
(* Initial state: the component has mounted (first commit, no image); React   *)
(* runs every effect after the first commit.                                  *)

AllEffects == {"image", "params", "heavy", "size"}

Init ==
    /\ imageBitmap = NoImage
    /\ params = Defaults
    /\ outW = 0
    /\ outH = 0
    /\ isScrubbingRef = FALSE
    /\ rafRef = 0
    /\ wantFullRef = FALSE
    /\ frameCallbacks = <<>>
    /\ pendingEffects = AllEffects
    /\ surface = Unmounted
    /\ burst = NoBurst
    /\ lastFire = NoFire
    /\ owedFull = FALSE
    /\ probe = NoProbe
    /\ exported = NoExport

-----------------------------------------------------------------------------
(* Commit: React replaces the state by new at the end of a handler *)

\* mutant: the <canvas> stays mounted when the image is cleared
CanvasAfter_Stays(new, surf) ==
    IF ~surf.mounted /\ new.imageBitmap # NoImage THEN BlankCanvas ELSE surf

\* canvasRef.current after the commit
CanvasAfter(new, surf) ==
    IF new.imageBitmap = NoImage THEN Unmounted
    ELSE IF ~surf.mounted THEN BlankCanvas
    ELSE surf

Commit(new) ==
    /\ imageBitmap' = new.imageBitmap
    /\ params' = new.params
    /\ outW' = new.outW
    /\ outH' = new.outH
    /\ pendingEffects' = EffectsOf(Closure, new)
    /\ surface' = CanvasAfter(new, surface)

\* handlers run between commits, after the passive effects of the last one
Settled == pendingEffects = {}

-----------------------------------------------------------------------------
(* Effects *)

\* const max = 1600
MaxOut == 1600

\* mutant: the product is rounded down
OutSize_Floor(d, longest) ==
    IF longest <= MaxOut THEN d
    ELSE (d * MaxOut) \div longest

\* Math.round(d * Math.min(1, max / Math.max(width, height))), longest = Math.max(..):
\* the scale is 1 up to max, and above it the product d * max / longest is
\* rounded to the nearest integer, halves upwards
OutSize(d, longest) ==
    IF longest <= MaxOut THEN d
    ELSE (2 * d * MaxOut + longest) \div (2 * longest)

\* The passive effects of the last commit, in declaration order, each with the
\* closure of that commit; the setOutW / setOutH of the first are committed after.
FlushEffects ==
    /\ pendingEffects # {}
    /\ LET cl == Closure
           sized == "image" \in pendingEffects /\ imageBitmap # NoImage
           longest == Max(imageBitmap.width, imageBitmap.height)
           s1 == IF sized THEN queueRender(Sched, TRUE, cl) ELSE Sched
           s2 == IF "params" \in pendingEffects THEN queueRender(s1, FALSE, cl) ELSE s1
           s3 == IF "heavy" \in pendingEffects
                 THEN queueRender(s2, ~isScrubbingRef, cl) ELSE s2
           s4 == IF "size" \in pendingEffects THEN queueRender(s3, TRUE, cl) ELSE s3
       IN  /\ SetSched(s4)
           /\ Commit(IF sized
                     THEN [cl EXCEPT !.outW = OutSize(imageBitmap.width, longest),
                                     !.outH = OutSize(imageBitmap.height, longest)]
                     ELSE cl)
    /\ UNCHANGED <<isScrubbingRef, lastFire, owedFull, probe, exported>>

-----------------------------------------------------------------------------
(* Handlers *)

\* createImageBitmap(..).then(bmp => setImageBitmap(bmp)): onFile, onDrop, loadDemo
LoadImage(bmp) ==
    /\ Settled
    /\ bmp # imageBitmap
    /\ Commit([Closure EXCEPT !.imageBitmap = bmp])
    /\ UNCHANGED <<isScrubbingRef, rafRef, wantFullRef, frameCallbacks, burst,
                   lastFire, owedFull, probe, exported>>

\* onInput={e => s.set(parseFloat(e.target.value))} of the slider of field f
SliderInput(f, v) ==
    /\ Settled
    /\ SliderMin[f] <= v /\ v <= SliderMax[f]
    /\ Commit([Closure EXCEPT !.params[f] = v])
    /\ UNCHANGED <<isScrubbingRef, rafRef, wantFullRef, frameCallbacks, burst,
                   lastFire, owedFull, probe, exported>>

\* mutant: the press only sets the flag
startScrub_FlagOnly ==
    /\ Settled
    /\ isScrubbingRef' = TRUE
    /\ UNCHANGED <<imageBitmap, params, outW, outH, pendingEffects, surface,
                   lastFire, owedFull, probe, exported, rafRef, wantFullRef,
                   frameCallbacks, burst>>

\* onPointerDown
startScrub ==
    /\ Settled
    /\ isScrubbingRef' = TRUE
    /\ SetSched(queueRender(Sched, FALSE, Closure))
    /\ UNCHANGED <<imageBitmap, params, outW, outH, pendingEffects, surface,
                   lastFire, owedFull, probe, exported>>

\* mutant: the release does not ask for a full render
endScrub_NoFull ==
    /\ Settled
    /\ isScrubbingRef' = FALSE
    /\ SetSched(queueRender([Sched EXCEPT !.burst.ended = @ \/ isScrubbingRef],
                            FALSE, Closure))
    /\ UNCHANGED <<imageBitmap, params, outW, outH, pendingEffects, surface,
                   lastFire, owedFull, probe, exported>>

\* onPointerUp, onPointerCancel
endScrub ==
    /\ Settled
    /\ isScrubbingRef' = FALSE
    /\ SetSched(queueRender([Sched EXCEPT !.burst.ended = @ \/ isScrubbingRef],
                            TRUE, Closure))
    /\ UNCHANGED <<imageBitmap, params, outW, outH, pendingEffects, surface,
                   lastFire, owedFull, probe, exported>>

\* the Reset buttons are disabled while no image is loaded
handleReset ==
    /\ Settled
    /\ imageBitmap # NoImage
    /\ SetSched(queueRender(Sched, TRUE, Closure))
    /\ Commit([Closure EXCEPT !.params = ResetState(params)])
    /\ UNCHANGED <<isScrubbingRef, lastFire, owedFull, probe, exported>>

\* handleReset(); setImageBitmap(null); the file dialog is opened by a timer
handleMakeAnother ==
    /\ Settled
    /\ SetSched(queueRender(Sched, TRUE, Closure))
    /\ Commit([Closure EXCEPT !.params = ResetState(params), !.imageBitmap = NoImage])
    /\ UNCHANGED <<isScrubbingRef, lastFire, owedFull, probe, exported>>

\* applyPreset(p): "none" calls handleReset, which queues a render of its own
applyPreset(p) ==
    /\ Settled
    /\ LET cl == Closure
           s1 == IF p = "none" THEN queueRender(Sched, TRUE, cl) ELSE Sched
       IN  SetSched(queueRender(s1, TRUE, cl))
    /\ Commit([Closure EXCEPT !.params = PresetState(params, p)])
    /\ UNCHANGED <<isScrubbingRef, lastFire, owedFull, probe, exported>>

-----------------------------------------------------------------------------
(* Export: the Download buttons and the three variants of handleDownload *)

\* the source files that define handleDownload
Variants == {"part_000", "App.tsx", "part_001"}

\* if (canvas.width === 0 || canvas.height === 0) { alert(..); return; }
\* part_001 has no such test
ZeroAreaTested(variant) == variant \in {"part_000", "App.tsx"}

\* handleDownload() of the variant with canvasRef.current = surf: nothing without
\* a canvas, the alert for a zero-area canvas where the variant tests for it,
\* and otherwise the link with canvas.toDataURL(..) is clicked ("data:," for a
\* zero-area canvas)
handleDownload(variant, surf) ==
    LET zero == surf.mounted /\ (surf.width = 0 \/ surf.height = 0)
    IN  IF ~surf.mounted
        THEN [clicked |-> TRUE, variant |-> variant, zeroArea |-> FALSE,
              file |-> FALSE, notice |-> FALSE]
        ELSE IF zero /\ ZeroAreaTested(variant)
        THEN [clicked |-> TRUE, variant |-> variant, zeroArea |-> TRUE,
              file |-> FALSE, notice |-> TRUE]
        ELSE [clicked |-> TRUE, variant |-> variant, zeroArea |-> zero,
              file |-> TRUE, notice |-> FALSE]

\* <button onClick={handleDownload} disabled={!imageBitmap}>
DownloadDisabled(bmp) == bmp = NoImage

\* a click on Download: a disabled button dispatches nothing
ClickDownload(variant) ==
    /\ Settled
    /\ exported' = IF DownloadDisabled(imageBitmap)
                   THEN [NoExport EXCEPT !.clicked = TRUE, !.variant = variant]
                   ELSE handleDownload(variant, surface)
    /\ UNCHANGED <<imageBitmap, params, outW, outH, isScrubbingRef, rafRef,
                   wantFullRef, frameCallbacks, pendingEffects, surface, burst,
                   lastFire, owedFull, probe>>

-----------------------------------------------------------------------------
(* Display refresh: the browser runs the armed animation-frame callbacks *)

Refresh ==
    /\ frameCallbacks # <<>>
    /\ LET st == RunCallbacks([rafRef |-> rafRef, wantFullRef |-> wantFullRef,
                               surface |-> surface, owed |-> owedFull,
                               fire |-> NoFire],
                              frameCallbacks)
       IN  /\ rafRef' = st.rafRef
           /\ wantFullRef' = st.wantFullRef
           /\ surface' = st.surface
           /\ owedFull' = st.owed
           /\ lastFire' = st.fire
    /\ frameCallbacks' = <<>>
    /\ burst' = NoBurst
    /\ UNCHANGED <<imageBitmap, params, outW, outH, isScrubbingRef, pendingEffects,
                   probe, exported>>

-----------------------------------------------------------------------------
(* The scheduler specification *)

\* the decoded image: wider than max, so that it is scaled down
Images == {[width |-> 3200, height |-> 360]}

\* the slider position tried
SliderInputs == {<<"burn", 0>>}

Next ==
    \/ FlushEffects
    \/ \E bmp \in Images : LoadImage(bmp)
    \/ \E in \in SliderInputs : SliderInput(in[1], in[2])
    \/ startScrub
    \/ endScrub
    \/ handleReset
    \/ handleMakeAnother
    \/ \E p \in PresetType : applyPreset(p)
    \/ Refresh

Spec == Init /\ [][Next]_vars

\* The scrubbing scenario alone (an image, a slider, the pointer), with the
\* fairness the platform gives: the display refreshes while a callback is
\* armed, and React runs the effects it has scheduled.  The user's own events
\* are under no fairness.
ScrubNext ==
    \/ FlushEffects
    \/ \E bmp \in Images : LoadImage(bmp)
    \/ \E in \in SliderInputs : SliderInput(in[1], in[2])
    \/ startScrub
    \/ endScrub
    \/ handleReset
    \/ Refresh

FairSpec == Init /\ [][ScrubNext]_vars /\ WF_vars(Refresh) /\ WF_vars(FlushEffects)

-----------------------------------------------------------------------------
(* The render pipeline under a range of images and parameter sets.  A         *)
(* behaviour starts where an image has just been set: the component mounted,  *)
(* the controls were moved to p before the first display refresh, that        *)
(* refresh ran (no image, nothing drawn), and setImageBitmap(bmp) committed.  *)

Started(bmp, p, px) ==
    /\ imageBitmap = bmp
    /\ params = p
    /\ outW = 0
    /\ outH = 0
    /\ isScrubbingRef = FALSE
    /\ rafRef = 0
    /\ wantFullRef = FALSE
    /\ frameCallbacks = <<>>
    /\ pendingEffects = {"image"}
    /\ surface = BlankCanvas
    /\ burst = NoBurst
    /\ lastFire = [NoFire EXCEPT !.fired = TRUE, !.renders = 1, !.arms = 1,
                                 !.coalesced = TRUE, !.full = TRUE, !.want = TRUE,
                                 !.runFull = TRUE, !.fresh = (p = Defaults)]
    /\ owedFull = FALSE
    /\ probe = px
    /\ exported = NoExport

\* decoded images: one pixel, sizes at which c * 0.35 falls short, the demo
\* image, and sizes above max in either orientation
PipeImages ==
    {[width |-> 1, height |-> 1], [width |-> 2, height |-> 3],
     [width |-> 180, height |-> 340], [width |-> 640, height |-> 800],
     [width |-> 1600, height |-> 1440], [width |-> 3200, height |-> 360],
     [width |-> 2000, height |-> 4000]}

\* slider and preset positions around the thresholds of the pipeline's tests
PipeParams ==
    {[Defaults EXCEPT !.brightness = br, !.exposureEV = ev, !.burn = bu,
                      !.noise = no, !.posterize = po, !.preset = pr] :
        br \in {200, 201}, ev \in {0, 20}, bu \in {0, 1, 100}, no \in {0, 8},
        po \in {0, 2}, pr \in {"none", "vhs", "ultra"}}

\* the pixel followed, and the random draw made for it
PipeProbes == {[on |-> TRUE, r |-> 200, g |-> 150, b |-> 100, a |-> 255, u |-> 500]}

PipeInit ==
    \E bmp \in PipeImages : \E p \in PipeParams : \E px \in PipeProbes :
        Started(bmp, p, px)

PipeNext ==
    \/ FlushEffects
    \/ startScrub
    \/ endScrub
    \/ Refresh

PipeSpec == PipeInit /\ [][PipeNext]_vars

-----------------------------------------------------------------------------
(* The pixel pass over the documented ranges of its inputs: the ends of each  *)
(* slider with a value between, dark, mid and saturated pixels, and the ends  *)
(* of the range of (Math.random() - 0.5) * 2.                                 *)

\* loadDemo(): c.width = 640, c.height = 800
DemoImage == [width |-> 640, height |-> 800]

PixelParams ==
    {[Defaults EXCEPT !.brightness = br, !.exposureEV = ev, !.burn = bu,
                      !.noise = no, !.posterize = po] :
        br \in {50, 200, 400}, ev \in {-20, 0, 10, 20}, bu \in {0, 35, 100},
        no \in {0, 8, 100}, po \in {0, 2, 8}}

PixelProbes ==
    {[on |-> TRUE, r |-> c[1], g |-> c[2], b |-> c[3], a |-> 255, u |-> u] :
        c \in {<<0, 0, 0>>, <<128, 128, 128>>, <<255, 255, 255>>,
               <<255, 0, 0>>, <<0, 0, 255>>, <<100, 127, 128>>},
        u \in {-1000, 0, 999}}

PixelInit ==
    \E p \in PixelParams : \E px \in PixelProbes : Started(DemoImage, p, px)

\* the pointer goes down at any moment and stays down
PixelNext ==
    \/ FlushEffects
    \/ startScrub
    \/ Refresh

PixelSpec == PixelInit /\ [][PixelNext]_vars

-----------------------------------------------------------------------------
(* Output sizing over image sides around 1, max and 2 * max, and 3 * max      *)

SizeDims ==
    (1 .. (1 + DimSpread))
    \cup ((MaxOut - DimSpread) .. (MaxOut + DimSpread))
    \cup ((2 * MaxOut - DimSpread) .. (2 * MaxOut + DimSpread))
    \cup {3 * MaxOut}

SizeImages == {[width |-> w, height |-> h] : w \in SizeDims, h \in SizeDims}

\* images picked after the first one
Reloads == {DemoImage, [width |-> 3200, height |-> 360]}

SizeInit == \E bmp \in SizeImages : Started(bmp, Defaults, NoProbe)

SizeNext ==
    \/ FlushEffects
    \/ \E bmp \in Reloads : LoadImage(bmp)
    \/ Refresh

SizeSpec == SizeInit /\ [][SizeNext]_vars

-----------------------------------------------------------------------------
(* Export over the canvas sizes handleDownload distinguishes.  renderFrame    *)
(* sets canvas.width = outW || imageBitmap.width, which is never 0, so a      *)
(* zero-area canvas is none that a render leaves: the behaviours start with a *)
(* canvas of each size, as the zero-area test of handleDownload supposes.     *)

ExportDims == {0, 1, 300}

ExportInit ==
    \E w \in ExportDims : \E h \in ExportDims :
        /\ imageBitmap = DemoImage
        /\ params = Defaults
        /\ outW = 0
        /\ outH = 0
        /\ isScrubbingRef = FALSE
        /\ rafRef = 0
        /\ wantFullRef = FALSE
        /\ frameCallbacks = <<>>
        /\ pendingEffects = {"image"}
        /\ surface = [BlankCanvas EXCEPT !.width = w, !.height = h]
        /\ burst = NoBurst
        /\ lastFire = [NoFire EXCEPT !.fired = TRUE, !.renders = 1, !.arms = 1,
                                     !.coalesced = TRUE, !.full = TRUE, !.want = TRUE,
                                     !.runFull = TRUE, !.fresh = TRUE]
        /\ owedFull = FALSE
        /\ probe = NoProbe
        /\ exported = NoExport

ExportNext ==
    \/ FlushEffects
    \/ \E v \in Variants : ClickDownload(v)
    \/ startScrub
    \/ Refresh

ExportSpec == ExportInit /\ [][ExportNext]_vars

-----------------------------------------------------------------------------
(* Loading, clearing and exporting: the image comes and goes while callbacks  *)
(* are armed, and Download is clicked at any time                             *)

ClearNext ==
    \/ FlushEffects
    \/ \E bmp \in Images : LoadImage(bmp)
    \/ handleMakeAnother
    \/ ClickDownload("part_000")
    \/ startScrub
    \/ endScrub
    \/ Refresh

ClearSpec == Init /\ [][ClearNext]_vars

-----------------------------------------------------------------------------
(* Every operation that calls queueRender, under the fairness of FairSpec *)

\* the preset button tried
LivePresets == {"ultra"}

LiveNext ==
    \/ FlushEffects
    \/ \E bmp \in Images : LoadImage(bmp)
    \/ startScrub
    \/ endScrub
    \/ handleReset
    \/ handleMakeAnother
    \/ \E p \in LivePresets : applyPreset(p)
    \/ Refresh

LiveSpec == Init /\ [][LiveNext]_vars /\ WF_vars(Refresh) /\ WF_vars(FlushEffects)

-----------------------------------------------------------------------------
(* The ParameterSet under every control that writes it: each slider at the    *)
(* ends of its range, every preset button, Reset and Make another.  The       *)
(* controls are operated one per display frame: the ParameterSet is written   *)
(* by the handlers alone, whatever the scheduler does in between.             *)

\* sliders away from the bundle of the preset in force at any time
MaxMoved == 1

\* the fields whose value is not that of the preset's bundle
Moved(p) == {f \in ParamFields : p[f] # PresetState(Defaults, p.preset)[f]}

\* each slider dragged to its min and to its max
RangeInputs ==
    {<<f, SliderMin[f]>> : f \in ParamFields} \cup {<<f, SliderMax[f]>> : f \in ParamFields}

\* the frame of the last operation has been drawn
FrameDone == rafRef = 0

RangeNext ==
    \/ FlushEffects
    \/ \E bmp \in Images : FrameDone /\ LoadImage(bmp)
    \/ \E in \in RangeInputs :
          /\ FrameDone
          /\ SliderInput(in[1], in[2])
          /\ Cardinality(Moved(params')) <= MaxMoved
    \/ FrameDone /\ handleReset
    \/ FrameDone /\ handleMakeAnother
    \/ \E p \in PresetType : FrameDone /\ applyPreset(p)
    \/ Refresh

RangeSpec == Init /\ [][RangeNext]_vars

-----------------------------------------------------------------------------
(* The brightness slider over its whole range 50..400, everything else        *)
(* neutral, so that the two places where brightness acts are seen alone       *)

BrightParams ==
    {[Defaults EXCEPT !.brightness = b, !.burn = 0, !.noise = 0] : b \in 50..400}

BrightProbes == {[on |-> TRUE, r |-> 100, g |-> 50, b |-> 10, a |-> 255, u |-> 0]}

BrightInit ==
    \E p \in BrightParams : \E px \in BrightProbes : Started(DemoImage, p, px)

BrightNext ==
    \/ FlushEffects
    \/ startScrub
    \/ Refresh

BrightSpec == BrightInit /\ [][BrightNext]_vars

-----------------------------------------------------------------------------
(* The variant of src/src/App.tsx: no scheduler and no burn; its renderFrame  *)
(* is called by an effect of the render whose values it reads, always at full *)
(* size.  Here it draws the state of the scheduler variant on the same        *)
(* canvas, so that the two pixel passes meet the same working pixel.          *)

\* mutant: noise alone does not ask for the pixel pass
NeedsPixel_NoNoise(p) ==
    p.exposureEV # 0 \/ p.brightness > 200 \/ p.posterize > 1

\* needsPixel = exposureEV !== 0 || brightness > 200 ||
\*              (posterize && posterize > 1) || (noise && noise > 0)
NeedsPixel(p) ==
    p.exposureEV # 0 \/ p.brightness > 200 \/ p.posterize > 1 \/ p.noise > 0

\* one iteration of the loop over d in App.tsx, for the pixel px
AppPixel(px, p, u) ==
    LET gained == [r |-> Gained(px.r, p), g |-> Gained(px.g, p), b |-> Gained(px.b, p)]
        doPosterize == p.posterize # 0 /\ p.posterize > 1
        doNoise == p.noise # 0 /\ p.noise > 0
        post == IF doPosterize
                THEN [r |-> RoundStep(gained.r, p.posterize),
                      g |-> RoundStep(gained.g, p.posterize),
                      b |-> RoundStep(gained.b, p.posterize)]
                ELSE gained
        n == IF doNoise THEN NoiseOffset(u, p.noise) ELSE 0
    IN  [r |-> clamp(post.r + n), g |-> clamp(post.g + n), b |-> clamp(post.b + n)]

\* the preset overlays of App.tsx; drawFilmBurn takes no strength there (its
\* first colour stop has alpha 0.75)
AppOverlays(preset) ==
    (IF preset = "film" THEN <<Ov("Vignette", 5000), Ov("FilmBurn", 7500)>> ELSE <<>>)
    \o (IF preset = "lofi" THEN <<Ov("Vignette", 7000)>> ELSE <<>>)
    \o (IF preset = "vhs" THEN <<Ov("Scanlines", 1800), Ov("ChromAb", 3500)>> ELSE <<>>)
    \o (IF preset = "ultra"
        THEN <<Ov("Vignette", 8000), Ov("FilmBurn", 7500),
               Ov("Scanlines", 2500), Ov("ChromAb", 3500)>>
        ELSE <<>>)

\* renderFrame() of App.tsx with closure cl; the burn field of cl.params is not read
App_renderFrame(cl, surf) ==
    IF cl.imageBitmap = NoImage THEN surf
    ELSE IF ~surf.mounted THEN surf
    ELSE
    LET p == cl.params
        CW == IF cl.outW # 0 THEN cl.outW ELSE cl.imageBitmap.width
        CH == IF cl.outH # 0 THEN cl.outH ELSE cl.imageBitmap.height
        pixel == NeedsPixel(p)
    IN  [mounted |-> TRUE, drawn |-> TRUE, width |-> CW, height |-> CH,
         src |-> cl.imageBitmap, used |-> p, W |-> CW, H |-> CH,
         previewScale |-> 100,
         cssB |-> Min(p.brightness, 200),
         allowHeavy |-> TRUE,
         passes |-> <<"ColorGrade">>
                    \o (IF pixel THEN <<"Tonal">> ELSE <<>>)
                    \o (IF pixel /\ p.posterize > 1 THEN <<"Posterize">> ELSE <<>>)
                    \o (IF pixel /\ p.noise > 0 THEN <<"Noise">> ELSE <<>>)
                    \o <<"Blit">>,
         bw |-> 0, bh |-> 0,
         overlays |-> AppOverlays(p.preset),
         ovW |-> CW, ovH |-> CH,
         sample |-> IF ~probe.on THEN Unmounted.sample
                    ELSE IF pixel THEN AppPixel(probe, p, probe.u)
                    ELSE [r |-> probe.r, g |-> probe.g, b |-> probe.b],
         alpha |-> IF ~probe.on THEN Unmounted.alpha
                   ELSE IF pixel THEN PixelAlpha(probe)
                   ELSE probe.a,
         by |-> "App.tsx"]

\* useEffect(() => { renderFrame(); }, [imageBitmap, outW, outH, brightness, ..])
AppRenderEffect ==
    /\ imageBitmap # NoImage
    /\ surface.mounted
    /\ surface' = App_renderFrame(Closure, surface)
    /\ UNCHANGED <<imageBitmap, params, outW, outH, isScrubbingRef, rafRef,
                   wantFullRef, frameCallbacks, pendingEffects, burst, lastFire,
                   owedFull, probe, exported>>

\* ParameterSets without burn: both ends and a middle value of the fields the
\* two pixel passes read, and the thresholds of needsPixel
VariantParams ==
    {[Defaults EXCEPT !.brightness = br, !.exposureEV = ev, !.burn = 0,
                      !.noise = no, !.posterize = po] :
        br \in {50, 200, 201, 400}, ev \in {-20, 0, 10, 20},
        no \in {0, 8, 100}, po \in {0, 1, 2, 8}}

VariantInit ==
    \E p \in VariantParams : \E px \in PixelProbes : Started(DemoImage, p, px)

VariantNext ==
    \/ FlushEffects
    \/ Refresh
    \/ AppRenderEffect

VariantSpec == VariantInit /\ [][VariantNext]_vars

\* pixels of every opacity under both pixel passes
AlphaParams ==
    {[Defaults EXCEPT !.brightness = br, !.exposureEV = ev, !.burn = bu,
                      !.noise = no, !.posterize = po] :
        br \in {200, 400}, ev \in {0, 20}, bu \in {0, 100}, no \in {0, 100},
        po \in {0, 2}}

AlphaProbes ==
    {[on |-> TRUE, r |-> c[1], g |-> c[2], b |-> c[3], a |-> a, u |-> u] :
        c \in {<<0, 0, 0>>, <<200, 150, 100>>}, a \in {0, 1, 128, 255},
        u \in {-1000, 999}}

AlphaInit ==
    \E p \in AlphaParams : \E px \in AlphaProbes : Started(DemoImage, p, px)

AlphaNext ==
    \/ FlushEffects
    \/ startScrub
    \/ Refresh
    \/ AppRenderEffect

AlphaSpec == AlphaInit /\ [][AlphaNext]_vars

-----------------------------------------------------------------------------
(* Claims *)

\* C1: Coalescing.  From no callback pending, any number N >= 1 of queueRender
\* calls made before the next display refresh arm exactly one animation-frame
\* callback and that refresh executes renderFrame exactly once; at most one
\* callback is pending in every reachable state.
C1_Coalescing ==
    /\ Len(frameCallbacks) <= 1
    /\ (burst.calls = 0 => frameCallbacks = <<>> /\ rafRef = 0 /\ burst.arms = 0)
    /\ (burst.calls >= 1 => Len(frameCallbacks) = 1 /\ rafRef # 0 /\ burst.arms = 1)
    /\ (lastFire.fired => lastFire.renders = 1 /\ lastFire.arms = 1)

\* a refresh has run the single callback of a burst of at least two calls
C1_Witness ==
    lastFire.fired /\ lastFire.coalesced /\ lastFire.renders = 1 /\ rafRef = 0

\* C2 as stated: after any queueRender(true), the next renderFrame execution
\* runs at full resolution (runFull, scale 1, heavy passes on) whatever
\* happens before the callback fires.
C2_NeverDropped ==
    (lastFire.fired /\ lastFire.full) =>
        /\ lastFire.runFull
        /\ (lastFire.drew => lastFire.scale = 100 /\ lastFire.heavy)

\* C2 amended: after a queueRender(true), the callback that fires next runs
\* renderFrame with runFull = true exactly when scrubbing is false at the time
\* it fires (then at scale 1 with heavy passes on); when scrubbing is true at
\* that time the render is a 0.35 preview without heavy passes.
C2_FullUnlessScrubbing ==
    (lastFire.fired /\ lastFire.full) =>
        /\ lastFire.runFull <=> ~lastFire.scrubbing
        /\ (lastFire.drew /\ ~lastFire.scrubbing =>
                lastFire.scale = 100 /\ lastFire.heavy)
        /\ (lastFire.drew /\ lastFire.scrubbing =>
                lastFire.scale = 35 /\ ~lastFire.heavy)

\* a full request was followed by a false one and then served by a full render
C2_Witness ==
    /\ lastFire.fired /\ lastFire.full /\ lastFire.coalesced
    /\ lastFire.runFull /\ lastFire.drew /\ lastFire.scale = 100

\* C3: every renderFrame execution uses the ParameterSet, source image and
\* output geometry that are current when the refresh callback fires.
C3_CurrentAtFire == lastFire.drew => lastFire.fresh

\* C4 as stated: after a transition of scrubbing from true to false, the next
\* renderFrame execution is at full resolution with all passes allowed, for
\* every interleaving of later events before the callback fires.
C4_FullAfterEndScrub ==
    (lastFire.fired /\ lastFire.ended) =>
        /\ lastFire.runFull
        /\ (lastFire.drew => lastFire.scale = 100 /\ lastFire.heavy)

\* C4 amended: after a transition of scrubbing from true to false, the next
\* renderFrame execution is at full resolution with all passes allowed
\* provided scrubbing is still (or again) false when the callback fires.
C4_FullAfterEndScrubIfReleased ==
    (lastFire.fired /\ lastFire.ended /\ ~lastFire.scrubbing) =>
        /\ lastFire.runFull
        /\ (lastFire.drew => lastFire.scale = 100 /\ lastFire.heavy)

\* a scrub ended and the refresh after it drew the image at full resolution
C4_Witness ==
    /\ lastFire.fired /\ lastFire.ended /\ ~lastFire.scrubbing
    /\ lastFire.runFull /\ lastFire.drew /\ lastFire.scale = 100 /\ lastFire.heavy

\* C5 (state part): a render whose burst held a full request is full when
\* scrubbing is false at fire time; and while a full request consumed by a
\* preview render is still owed and scrubbing has ended, a callback is armed
\* with the full flag set.
C5_FullOwedIsArmed ==
    /\ (lastFire.fired /\ lastFire.full /\ ~lastFire.scrubbing) =>
           (lastFire.runFull /\ (lastFire.drew => lastFire.scale = 100))
    /\ (owedFull => lastFire.fired /\ lastFire.scrubbing)
    /\ (owedFull /\ ~isScrubbingRef) =>
           (rafRef # 0 /\ wantFullRef /\ Len(frameCallbacks) = 1)

\* C5: Forced-full guarantee.  If a call of a coalesced burst had requestFull,
\* the burst's render is full when scrubbing is false at fire time; and when
\* scrubbing was true at fire time, once scrubbing has ended a full-resolution
\* render executes at the next refresh (unless scrubbing starts again first).
C5_ForcedFull ==
    /\ []C5_FullOwedIsArmed
    /\ (owedFull /\ ~isScrubbingRef) ~> (~owedFull \/ isScrubbingRef)

\* a full request was consumed by a preview render during a scrub, and after
\* the scrub ended the image was drawn at full resolution
C5_Witness ==
    /\ lastFire.fired /\ lastFire.owedBefore /\ lastFire.runFull
    /\ lastFire.drew /\ lastFire.scale = 100 /\ ~owedFull

\* C6 as stated: in every renderFrame execution with scrubbing = true the
\* working buffer is exactly max(1, floor(0.35*CW)) by max(1, floor(0.35*CH)),
\* the overlays (with the burn-driven Vignette and WarmEdgeBurn when burn > 0)
\* are drawn at CW by CH; with scrubbing = false the buffer is CW by CH.
C6_ExactPreviewSize ==
    (lastFire.drew /\ surface.drawn) =>
        /\ lastFire.scrubbing =>
               /\ surface.W = Max(1, (35 * surface.width) \div 100)
               /\ surface.H = Max(1, (35 * surface.height) \div 100)
        /\ ~lastFire.scrubbing =>
               surface.W = surface.width /\ surface.H = surface.height
        /\ surface.ovW = surface.width /\ surface.ovH = surface.height

\* the extent Math.floor(c * 0.35) may take: the exact floor(0.35 c), or one
\* less at the sizes where the double product falls short; never below 1
WithinPreview(w, c) ==
    /\ w >= 1
    /\ w <= Max(1, (35 * c) \div 100)
    /\ w >= (35 * c) \div 100 - 1
    /\ (c \notin Short35 => w = Max(1, (35 * c) \div 100))

\* C6 amended: in every renderFrame execution with scrubbing = true the
\* working buffer is never larger than max(1, floor(0.35*CW)) by
\* max(1, floor(0.35*CH)), and each side equals that value except where the
\* double product c * 0.35 falls just below an integer (c = 180, 340, 360, ..),
\* where it is one less; the overlays, with the burn-driven Vignette and
\* WarmEdgeBurn when burn > 0, are drawn at CW by CH; with scrubbing = false
\* the working buffer is CW by CH.
C6_PreviewNeverLarger ==
    (lastFire.drew /\ surface.drawn) =>
        /\ lastFire.scrubbing =>
               /\ WithinPreview(surface.W, surface.width)
               /\ WithinPreview(surface.H, surface.height)
        /\ ~lastFire.scrubbing =>
               surface.W = surface.width /\ surface.H = surface.height
        /\ surface.ovW = surface.width /\ surface.ovH = surface.height
        /\ surface.used.burn > 0 =>
               /\ \E i \in DOMAIN surface.overlays :
                      surface.overlays[i] = Ov("Vignette", 28 * surface.used.burn)
               /\ \E i \in DOMAIN surface.overlays :
                      surface.overlays[i] = Ov("WarmEdgeBurn", 50 * surface.used.burn)

\* a preview render of a 1600 x 1440 canvas with burn > 0: the buffer is
\* 560 x 503 and the burn overlays cover 1600 x 1440
C6_Witness ==
    /\ lastFire.drew /\ lastFire.scrubbing /\ surface.drawn
    /\ surface.width = 1600 /\ surface.height = 1440
    /\ surface.W = 560 /\ surface.H = 503
    /\ surface.used.burn = 100
    /\ surface.ovW = 1600 /\ surface.ovH = 1440

\* C7: the pixel pass is skipped in a render if and only if exposure = 0 and
\* brightness <= 200 and burn = 0 and heavy passes are not allowed; in every
\* other render the exposure gain, the extra brightness gain and the burn
\* stage are applied to each pixel by the same formula whether or not
\* scrubbing is active.
C7_PixelPassSkippedIff ==
    (lastFire.drew /\ surface.drawn) =>
        LET p == surface.used
            skipped == \A i \in DOMAIN surface.passes : surface.passes[i] # "Tonal"
            px == [r |-> probe.r, g |-> probe.g, b |-> probe.b]
        IN  /\ skipped <=> (/\ p.exposureEV = 0
                            /\ p.brightness <= 200
                            /\ p.burn = 0
                            /\ ~surface.allowHeavy)
            /\ skipped => surface.sample = px
            /\ (~skipped /\ (~surface.allowHeavy \/ (p.posterize <= 1 /\ p.noise = 0))) =>
                   surface.sample = TonalPixel(probe, [p EXCEPT !.posterize = 0, !.noise = 0],
                                               TRUE, 0)

\* a preview render during a scrub ran the pixel pass because burn > 0 and
\* changed the pixel, with posterize and noise set but not applied
C7_Witness ==
    /\ lastFire.drew /\ lastFire.scrubbing /\ surface.drawn
    /\ ~surface.allowHeavy
    /\ surface.used.burn = 100 /\ surface.used.exposureEV = 0
    /\ surface.used.brightness = 200
    /\ surface.used.posterize = 2 /\ surface.used.noise = 8
    /\ surface.passes = <<"ColorGrade", "Tonal", "Blit">>
    /\ surface.sample # [r |-> probe.r, g |-> probe.g, b |-> probe.b]

\* C8: for every input pixel in 0..255 and every brightness, exposure, burn,
\* noise and posterize within the sliders' ranges (with the worst case
\* exposure +2, brightness 400, burn 100, noise 1) and any noise sample, each
\* of the r, g, b values the pixel pass writes back is an integer in 0..255.
C8_OutputInByteRange ==
    (surface.drawn /\ probe.on /\ \E i \in DOMAIN surface.passes :
                                      surface.passes[i] = "Tonal") =>
        /\ surface.sample.r \in 0..255
        /\ surface.sample.g \in 0..255
        /\ surface.sample.b \in 0..255

\* the worst case was rendered with all passes on: a white pixel at exposure
\* +2, brightness 400, burn 100, noise 1 with the largest sample, posterized
C8_Witness ==
    /\ surface.drawn /\ surface.allowHeavy
    /\ surface.used.exposureEV = 20 /\ surface.used.brightness = 400
    /\ surface.used.burn = 100 /\ surface.used.noise = 100
    /\ surface.used.posterize = 8
    /\ probe.r = 255 /\ probe.g = 255 /\ probe.b = 255 /\ probe.u = 999
    /\ surface.passes = <<"ColorGrade", "Tonal", "Posterize", "Noise", "Bloom", "Blit">>
    /\ surface.sample = [r |-> 255, g |-> 255, b |-> 255]

\* a ParameterSet whose numeric fields are those of the bundle of its preset
\* field, but for a slider moved since, is no mixture of two presets
Unmixed(p) ==
    \E in \in SliderInputs \cup {<<"burn", PresetState(Defaults, p.preset).burn>>} :
        p = [PresetState(Defaults, p.preset) EXCEPT ![in[1]] = in[2]]

\* C9: applyPreset(p) overwrites the whole ParameterSet atomically: from any
\* prior state the preset field becomes p and the eight numeric fields become
\* p's fixed bundle, so that the result depends only on p; applyPreset("none")
\* yields the defaults 120, 120, 140, 0, 0, 35, 0.08, 0; and no executed render
\* observes a mixture of old and new fields.
C9_PresetAtomic ==
    /\ [][\A p \in PresetType : applyPreset(p) =>
             /\ params'.preset = p
             /\ params' = PresetState(Defaults, p)
             /\ p = "none" =>
                    params' = [brightness |-> 120, contrast |-> 120,
                               saturation |-> 140, hue |-> 0, exposureEV |-> 0,
                               burn |-> 35, noise |-> 8, posterize |-> 0,
                               preset |-> "none"]]_vars
    /\ [](Unmixed(params) /\ (surface.drawn => Unmixed(surface.used)))

\* "ultra" was applied over "film" with the burn slider moved, and a render
\* drew the ultra bundle
C9_Witness ==
    /\ lastFire.drew /\ surface.drawn
    /\ surface.used.preset = "ultra"
    /\ surface.used = PresetState([PresetState(Defaults, "film") EXCEPT !.burn = 0],
                                  "ultra")
    /\ surface.used.posterize = 6 /\ surface.used.burn = 75
    /\ params = surface.used

\* n is d * MaxOut / longest rounded to the nearest integer
NearestScaled(n, d, longest) ==
    /\ 2 * n * longest <= 2 * d * MaxOut + longest
    /\ 2 * n * longest > 2 * d * MaxOut - longest

\* C10: Output sizing.  For every source image with width and height >= 1,
\* once the sizing effect has run, outW = round(srcW * s) and
\* outH = round(srcH * s) with s = min(1, 1600 / max(srcW, srcH)), so that
\* max(outW, outH) <= 1600, the output equals the source size whenever
\* max(srcW, srcH) <= 1600, and the longer side is exactly 1600 otherwise.
C10_OutputSizing ==
    (imageBitmap # NoImage /\ "image" \notin pendingEffects) =>
        LET srcW == imageBitmap.width
            srcH == imageBitmap.height
            longest == Max(srcW, srcH)
        IN  /\ Max(outW, outH) <= 1600
            /\ longest <= 1600 => outW = srcW /\ outH = srcH
            /\ longest > 1600 =>
                   /\ NearestScaled(outW, srcW, longest)
                   /\ NearestScaled(outH, srcH, longest)
                   /\ Max(outW, outH) = 1600
                   /\ (srcW = longest => outW = 1600)
                   /\ (srcH = longest => outH = 1600)

\* a 3201 x 1601 image was sized to 1600 x 800, and the canvas drawn at that size
C10_Witness ==
    /\ imageBitmap = [width |-> 3201, height |-> 1601]
    /\ "image" \notin pendingEffects
    /\ outW = 1600 /\ outH = 800
    /\ surface.drawn /\ surface.width = 1600 /\ surface.height = 800

\* C11: in every renderFrame execution with an image loaded, the overlays drawn
\* after the blit are the fixed list of the preset in use (none: empty; film:
\* Vignette 0.5, FilmBurn 0.8; lofi: Vignette 0.7; vhs: Scanlines 0.18,
\* ChromaticAberration; ultra: Vignette 0.85, FilmBurn 1.0, Scanlines 0.25,
\* ChromaticAberration) followed, if and only if burn > 0, by
\* Vignette(0.28 * burn / 100) then WarmEdgeBurn(0.5 * burn / 100); the
\* burn-driven overlays are last, whatever the preset and the scrubbing flag.
C11_OverlaySequence ==
    surface.drawn =>
        LET p == surface.used
            names == [i \in DOMAIN surface.overlays |->
                        <<surface.overlays[i].op, surface.overlays[i].strength>>]
            fixed == CASE p.preset = "none" -> <<>>
                       [] p.preset = "film" -> <<<<"Vignette", 5000>>, <<"FilmBurn", 8000>>>>
                       [] p.preset = "lofi" -> <<<<"Vignette", 7000>>>>
                       [] p.preset = "vhs" -> <<<<"Scanlines", 1800>>, <<"ChromAb", 3500>>>>
                       [] p.preset = "ultra" ->
                            <<<<"Vignette", 8500>>, <<"FilmBurn", 10000>>,
                              <<"Scanlines", 2500>>, <<"ChromAb", 3500>>>>
            driven == IF p.burn > 0
                      THEN <<<<"Vignette", 28 * p.burn>>, <<"WarmEdgeBurn", 50 * p.burn>>>>
                      ELSE <<>>
        IN  /\ names = fixed \o driven
            /\ surface.passes[Len(surface.passes)] = "Blit"
            /\ surface.ovW = surface.width /\ surface.ovH = surface.height

\* a preview render during a scrub drew the four overlays of "ultra" and then
\* the two burn-driven ones for burn = 75
C11_Witness ==
    /\ lastFire.drew /\ lastFire.scrubbing /\ surface.drawn
    /\ surface.used.preset = "ultra" /\ surface.used.burn = 75
    /\ Len(surface.overlays) = 6
    /\ surface.overlays[5] = Ov("Vignette", 2100)
    /\ surface.overlays[6] = Ov("WarmEdgeBurn", 3750)

C13_NoImageNoOp ==
    /\ [](imageBitmap = NoImage => surface = Unmounted)
    /\ [][(Refresh /\ imageBitmap = NoImage) =>
             /\ surface' = surface
             /\ ~lastFire'.drew
             /\ rafRef' = 0 /\ ~wantFullRef' /\ frameCallbacks' = <<>>]_vars
    /\ [][(ClickDownload("part_000") /\ imageBitmap = NoImage) =>
             /\ ~exported'.file /\ ~exported'.notice
             /\ surface' = surface]_vars

\* a callback armed with an image fired after handleMakeAnother and drew
\* nothing, and a click on Download did nothing
C13_Witness ==
    /\ imageBitmap = NoImage
    /\ lastFire.fired /\ lastFire.hadImage /\ ~lastFire.drew
    /\ rafRef = 0 /\ ~wantFullRef
    /\ surface = Unmounted
    /\ exported.clicked /\ ~exported.file /\ ~exported.notice

\* this refresh executes renderFrame with scrubbing = false and noise = 0 on
\* the image and ParameterSet of the execution that drew the canvas before it,
\* which ran with scrubbing = false too
RepeatedRender ==
    /\ Refresh
    /\ surface.drawn /\ surface.previewScale = 100
    /\ lastFire'.drew /\ ~lastFire'.scrubbing
    /\ surface'.used.noise = 0
    /\ surface'.src = surface.src
    /\ surface'.used = surface.used

TonalRan ==
    /\ surface.drawn /\ probe.on
    /\ \E i \in DOMAIN surface.passes : surface.passes[i] = "Tonal"

\* C15 as stated: with posterize = 2, every r, g, b value written by the pixel
\* pass is 0 or 255, for every input pixel and every in-range value of the
\* other parameters.
C15_TwoLevels ==
    (TonalRan /\ surface.used.posterize = 2) =>
        /\ surface.sample.r \in {0, 255}
        /\ surface.sample.g \in {0, 255}
        /\ surface.sample.b \in {0, 255}

\* C15 amended: with posterize = 2, noise = 0 and heavy passes allowed (the
\* render runs with scrubbing = false), every r, g, b value written by the
\* pixel pass is 0 or 255, for every input pixel and every in-range value of
\* brightness, exposure and burn.
C15_TwoLevelsWithoutNoise ==
    (TonalRan /\ surface.used.posterize = 2 /\ surface.used.noise = 0
        /\ surface.allowHeavy) =>
        /\ surface.sample.r \in {0, 255}
        /\ surface.sample.g \in {0, 255}
        /\ surface.sample.b \in {0, 255}

\* a mid-gray pixel at exposure -2 with burn 35 was posterized to two levels:
\* it went to black
C15_Witness ==
    /\ TonalRan /\ surface.allowHeavy
    /\ surface.used.posterize = 2 /\ surface.used.noise = 0
    /\ surface.used.burn = 35 /\ surface.used.exposureEV = -20
    /\ surface.passes = <<"ColorGrade", "Tonal", "Posterize", "Bloom", "Blit">>
    /\ probe.r = 128 /\ probe.g = 128 /\ probe.b = 128
    /\ surface.sample = [r |-> 0, g |-> 0, b |-> 0]

\* exposure = +1 EV and everything else neutral
OneStopOnly(p) ==
    /\ p.exposureEV = 10
    /\ p.brightness <= 200
    /\ p.burn = 0 /\ p.noise = 0 /\ p.posterize <= 1

\* C16: with exposure = +1 EV and everything else neutral, every channel value
\* v in 0..255 of the working buffer becomes 2 v before clamping and
\* min(255, 2 v) after: 0..127 map to exactly 2 v, values above 127 saturate.
C16_OneStopDoubles ==
    (TonalRan /\ OneStopOnly(surface.used)) =>
        /\ Gained(probe.r, surface.used) = 200 * probe.r
        /\ Gained(probe.g, surface.used) = 200 * probe.g
        /\ Gained(probe.b, surface.used) = 200 * probe.b
        /\ surface.sample.r = Min(255, 2 * probe.r)
        /\ surface.sample.g = Min(255, 2 * probe.g)
        /\ surface.sample.b = Min(255, 2 * probe.b)
        /\ \A c \in {"r", "g", "b"} :
               /\ probe[c] <= 127 => surface.sample[c] = 2 * probe[c]
               /\ probe[c] > 127 => surface.sample[c] = 255

\* the pixel (100, 127, 128) was written as (200, 254, 255) at +1 EV, in a
\* preview render during a scrub
C16_Witness ==
    /\ TonalRan /\ OneStopOnly(surface.used) /\ ~surface.allowHeavy
    /\ probe.r = 100 /\ probe.g = 127 /\ probe.b = 128
    /\ surface.sample = [r |-> 200, g |-> 254, b |-> 255]

\* a pure-white working pixel under burn = 100, exposure = 0, brightness <= 200
WhiteUnderFullBurn ==
    /\ TonalRan
    /\ surface.used.burn = 100 /\ surface.used.exposureEV = 0
    /\ surface.used.brightness <= 200
    /\ probe.r = 255 /\ probe.g = 255 /\ probe.b = 255

\* the pixel after the gain stage, and after the burn stage, in 1/100
WhiteGained == [r |-> Gained(255, surface.used), g |-> Gained(255, surface.used),
                b |-> Gained(255, surface.used)]
WhiteBurned == Burned(WhiteGained, surface.used)

\* C17 as stated: with burn = 100, exposure = 0 and brightness <= 200, a
\* pure-white working pixel gets highlight mask t = 1; its red and green values
\* are pushed above 255 and clamped to 255; and its blue value before clamping
\* is lower than the input blue 255.
C17_BlueBelowInput ==
    WhiteUnderFullBurn =>
        /\ HighlightMask(Luma(WhiteGained)) = 1000
        /\ WhiteBurned.r > 25500 /\ WhiteBurned.g > 25500
        /\ (surface.allowHeavy /\ surface.used.noise = 0 /\ surface.used.posterize <= 1) =>
               surface.sample.r = 255 /\ surface.sample.g = 255
        /\ WhiteBurned.b < 25500

\* C17 amended: with burn = 100, exposure = 0 and brightness <= 200, a
\* pure-white working pixel gets highlight mask t = 1; its red and green values
\* are pushed above 255 and clamped to 255; its blue value is pushed by the
\* factor 1.4025 and then reduced by the blue cut 255 * 0.28 * 0.2 = 14.28, which
\* leaves it at about 343.4 before clamping, above the input 255, so that blue
\* is clamped to 255 as well.
C17_BlueCutAfterPush ==
    WhiteUnderFullBurn =>
        /\ HighlightMask(Luma(WhiteGained)) = 1000
        /\ WhiteBurned.r > 25500 /\ WhiteBurned.g > 25500
        /\ WhiteBurned.b > 34300 /\ WhiteBurned.b < 34400
        /\ WhiteBurned.b < (25500 * 14025) \div 10000
        /\ (surface.allowHeavy /\ surface.used.noise = 0 /\ surface.used.posterize <= 1) =>
               surface.sample = [r |-> 255, g |-> 255, b |-> 255]

\* a white pixel was rendered under burn = 100 with neither posterize nor
\* noise, and written back white
C17_Witness ==
    /\ WhiteUnderFullBurn /\ surface.allowHeavy
    /\ surface.used.noise = 0 /\ surface.used.posterize = 0
    /\ surface.used.brightness = 200
    /\ surface.passes = <<"ColorGrade", "Tonal", "Bloom", "Blit">>
    /\ surface.sample = [r |-> 255, g |-> 255, b |-> 255]

\* C18: each callback fire performs, as one step: clear the handle, compute
\* runFull = pendingFullRender and not scrubbing from the values at fire time,
\* clear pendingFullRender, and invoke renderFrame exactly once with runFull;
\* immediately after every fire the scheduler is Idle (handle = null and
\* pendingFullRender = false), from either scheduled state.
C18_FireAtomic ==
    [][Refresh =>
         /\ rafRef' = 0 /\ ~wantFullRef' /\ frameCallbacks' = <<>>
         /\ burst' = NoBurst
         /\ lastFire'.fired /\ lastFire'.renders = 1
         /\ lastFire'.want = wantFullRef
         /\ lastFire'.scrubbing = isScrubbingRef
         /\ lastFire'.runFull = (wantFullRef /\ ~isScrubbingRef)
         /\ (lastFire'.drew => surface'.allowHeavy = ~isScrubbingRef)
         /\ isScrubbingRef' = isScrubbingRef]_vars

\* a callback scheduled without the full flag fired during a scrub, drew a
\* preview and left the scheduler Idle
C18_Witness ==
    /\ lastFire.fired /\ ~lastFire.want /\ lastFire.scrubbing /\ ~lastFire.runFull
    /\ lastFire.drew /\ lastFire.renders = 1
    /\ rafRef = 0 /\ ~wantFullRef /\ frameCallbacks = <<>> /\ burst = NoBurst

\* C19 as stated: startScrub and endScrub only change the scrubbing flag and,
\* from the Idle state, neither of them arms a callback or causes a
\* renderFrame execution.
C19_ScrubArmsNothing ==
    [][((startScrub \/ endScrub) /\ rafRef = 0) =>
         (rafRef' = 0 /\ frameCallbacks' = <<>>)]_vars

\* C19 amended: startScrub and endScrub execute no renderFrame themselves:
\* each sets the scrubbing flag and calls queueRender (startScrub with
\* requestFull = false, endScrub with true), so that from the Idle state each
\* arms one callback, whose fire executes renderFrame at the next display
\* refresh; with a callback armed already they arm none and endScrub sets the
\* full flag.
C19_ScrubQueuesRender ==
    [][(startScrub \/ endScrub) =>
         /\ surface' = surface /\ lastFire' = lastFire
         /\ params' = params /\ imageBitmap' = imageBitmap
         /\ rafRef' # 0 /\ Len(frameCallbacks') = 1
         /\ (rafRef # 0 => frameCallbacks' = frameCallbacks)
         /\ (rafRef = 0 => frameCallbacks' = <<Closure>>)
         /\ (isScrubbingRef' => wantFullRef' = wantFullRef)
         /\ (~isScrubbingRef' => wantFullRef')]_vars

\* a press on a slider from the Idle state has armed a callback without the
\* full flag
C19_Witness ==
    /\ isScrubbingRef /\ rafRef # 0 /\ ~wantFullRef
    /\ burst.calls = 1 /\ burst.arms = 1 /\ ~burst.full
    /\ pendingEffects = {}
    /\ lastFire.fired /\ lastFire.drew /\ ~lastFire.scrubbing
    /\ surface.drawn /\ surface.used = params
    /\ frameCallbacks = <<Closure>>

\* C20: under fairness of the display refresh, every queueRender call is
\* eventually followed by a callback fire that happens after the call and
\* invokes renderFrame: an armed callback is never cancelled or replaced by
\* any operation, and the handle is non-null only while a callback is armed.
C20_EveryCallServed ==
    /\ [](rafRef # 0 <=> Len(frameCallbacks) = 1)
    /\ [](burst.calls > 0 <=> rafRef # 0)
    /\ [][frameCallbacks # <<>> =>
            \/ frameCallbacks' = frameCallbacks
            \/ Refresh /\ lastFire'.fired /\ lastFire'.renders = 1]_vars
    /\ (burst.calls > 0) ~> (burst = NoBurst /\ lastFire.fired /\ rafRef = 0)

\* a callback armed with an image loaded outlived applyPreset("ultra") and
\* further queueRender calls, and fired
C20_Witness ==
    /\ lastFire.fired /\ lastFire.hadImage /\ lastFire.coalesced /\ lastFire.full
    /\ lastFire.drew /\ lastFire.renders = 1
    /\ params.preset = "ultra" /\ surface.used.preset = "none"
    /\ burst = NoBurst /\ rafRef = 0

\* the scheduler is Idle with an image loaded and no effect left to run
IdleWithImage ==
    /\ rafRef = 0 /\ frameCallbacks = <<>>
    /\ Settled
    /\ imageBitmap # NoImage

\* C21: no parameter change is lost.  After any sequence of slider changes,
\* applyPreset, handleReset, image loads, startScrub and endScrub, once the
\* scheduler is Idle with an image loaded, the most recently executed
\* renderFrame used exactly the current ParameterSet, source image and output
\* geometry, so that the visible surface is never left stale.
C21_NoChangeLost ==
    (IdleWithImage /\ lastFire.drew /\ surface.drawn) =>
        /\ surface.used = params
        /\ surface.src = imageBitmap
        /\ surface.width = (IF outW # 0 THEN outW ELSE imageBitmap.width)
        /\ surface.height = (IF outH # 0 THEN outH ELSE imageBitmap.height)

\* the canvas the callbacks armed now leave when they fire with the full flag
\* at value want
SurfaceWithFlag(want) ==
    RunCallbacks([rafRef |-> rafRef, wantFullRef |-> want, surface |-> surface,
                  owed |-> owedFull, fire |-> NoFire],
                 frameCallbacks).surface

\* C22: the pendingFullRender flag has no observable effect on what is
\* rendered.  In every renderFrame execution the working resolution and the
\* heavy-pass permission are determined by the scrubbing flag at fire time
\* alone (allowHeavy = not scrubbing, scale = 0.35 if scrubbing, else 1), and
\* the surface a fire leaves is the one it leaves with the flag at either
\* value: the scheduler is observationally equivalent to one that ignores the
\* requestFull argument.
C22_FullFlagUnobservable ==
    /\ []((lastFire.drew /\ surface.drawn) =>
             /\ surface.allowHeavy = ~lastFire.scrubbing
             /\ surface.previewScale = (IF lastFire.scrubbing THEN 35 ELSE 100))
    /\ [][Refresh =>
             /\ surface' = SurfaceWithFlag(TRUE)
             /\ surface' = SurfaceWithFlag(FALSE)]_vars

\* the full flag was set when a callback fired during a scrub, and the render
\* was a preview without heavy passes
C22_Witness ==
    /\ lastFire.fired /\ lastFire.want /\ lastFire.scrubbing /\ ~lastFire.runFull
    /\ lastFire.drew /\ surface.drawn
    /\ surface.previewScale = 35 /\ ~surface.allowHeavy

\* the three states of the scheduler
Idle == rafRef = 0 /\ frameCallbacks = <<>> /\ ~wantFullRef
ScheduledPreview == rafRef # 0 /\ Len(frameCallbacks) = 1 /\ ~wantFullRef
ScheduledFull == rafRef # 0 /\ Len(frameCallbacks) = 1 /\ wantFullRef

\* C23: in every reachable state pendingFullRender = true implies that a
\* callback is pending (the handle is non-null): the scheduler is always in
\* exactly one of Idle (no handle, flag false), ScheduledPreview (handle, flag
\* false) and ScheduledFull (handle, flag true), and a full-render request is
\* never recorded without a callback armed to consume it.
C23_FlagImpliesArmed ==
    /\ wantFullRef => rafRef # 0
    /\ Idle \/ ScheduledPreview \/ ScheduledFull
    /\ burst.full => (wantFullRef /\ Len(frameCallbacks) = 1)

\* a full request was recorded while a callback was armed already, during a
\* scrub
C23_Witness ==
    /\ ScheduledFull /\ isScrubbingRef
    /\ burst.calls >= 2 /\ burst.arms = 1 /\ burst.full

\* the render that drew the canvas ran the pass named n
PassRan(n) == \E i \in DOMAIN surface.passes : surface.passes[i] = n

\* C24: in every renderFrame execution with scrubbing = true, posterization,
\* noise and bloom are all skipped whatever the values of posterize, noise and
\* burn; in every execution with scrubbing = false they are all allowed:
\* posterize runs iff posterize > 1, noise iff noise > 0, bloom iff burn > 0.
C24_HeavySkippedWhileScrubbing ==
    (lastFire.drew /\ surface.drawn) =>
        LET p == surface.used
        IN  /\ lastFire.scrubbing =>
                   /\ ~PassRan("Posterize") /\ ~PassRan("Noise") /\ ~PassRan("Bloom")
                   /\ surface.bw = 0 /\ surface.bh = 0
                   /\ PassRan("Tonal") =>
                          surface.sample =
                              TonalPixel(probe, [p EXCEPT !.posterize = 0, !.noise = 0],
                                         TRUE, 0)
            /\ ~lastFire.scrubbing =>
                   /\ PassRan("Tonal")
                   /\ PassRan("Posterize") <=> p.posterize > 1
                   /\ PassRan("Noise") <=> p.noise > 0
                   /\ PassRan("Bloom") <=> p.burn > 0
                   /\ surface.sample = TonalPixel(probe, p, TRUE, probe.u)

\* a preview render during a scrub with posterize = 2, noise = 0.08 and
\* burn = 1 ran the pixel pass for the exposure and skipped all three
C24_Witness ==
    /\ lastFire.drew /\ lastFire.scrubbing /\ surface.drawn
    /\ surface.used.posterize = 2 /\ surface.used.noise = 8 /\ surface.used.burn = 1
    /\ surface.used.exposureEV = 20 /\ surface.used.brightness = 201
    /\ PassRan("Tonal")
    /\ ~PassRan("Posterize") /\ ~PassRan("Noise") /\ ~PassRan("Bloom")

\* C25: bloom is applied in a render if and only if burn > 0 and heavy passes
\* are allowed; whenever it is applied it comes after the tonal pixel pass of
\* the same render and before the blit and the overlays, and its downsample
\* buffer is max(1, floor(0.25 * W)) by max(1, floor(0.25 * H)), never
\* zero-sized.
C25_BloomAfterTonal ==
    (lastFire.drew /\ surface.drawn) =>
        LET ps == surface.passes
        IN  /\ PassRan("Bloom") <=> (surface.used.burn > 0 /\ surface.allowHeavy)
            /\ ps[Len(ps)] = "Blit"
            /\ \A i \in DOMAIN ps : ps[i] = "Blit" => i = Len(ps)
            /\ PassRan("Bloom") =>
                   /\ \E i \in DOMAIN ps : \E j \in DOMAIN ps :
                          i < j /\ ps[i] = "Tonal" /\ ps[j] = "Bloom" /\ j = Len(ps) - 1
                   /\ surface.bw = Max(1, surface.W \div 4)
                   /\ surface.bh = Max(1, surface.H \div 4)
                   /\ surface.bw >= 1 /\ surface.bh >= 1
            /\ ~PassRan("Bloom") => (surface.bw = 0 /\ surface.bh = 0)

\* a 2 x 3 image was rendered with burn = 100: floor(0.25 * 2) and
\* floor(0.25 * 3) are 0 and the bloom buffer was 1 x 1
C25_Witness ==
    /\ lastFire.drew /\ ~lastFire.scrubbing /\ surface.drawn
    /\ surface.used.burn = 100
    /\ surface.W = 2 /\ surface.H = 3
    /\ PassRan("Bloom")
    /\ surface.bw = 1 /\ surface.bh = 1

\* C26: in every renderFrame execution with an image of positive dimensions
\* loaded, the visible canvas is sized to the OutputGeometry derived from the
\* current source image: neither dimension is zero and the longer side never
\* exceeds 1600, including for the first render after an image load and for a
\* render after a new image replaces an older one.
C26_CanvasIsOutputGeometry ==
    (lastFire.drew /\ surface.drawn) =>
        LET longest == Max(surface.src.width, surface.src.height)
            gw == OutSize(surface.src.width, longest)
            gh == OutSize(surface.src.height, longest)
        IN  /\ surface.width # 0 /\ surface.height # 0
            /\ Max(surface.width, surface.height) <= MaxOut
            /\ gw # 0 => surface.width = gw
            /\ gh # 0 => surface.height = gh

\* the documented ranges: brightness 50..400, contrast 50..250, saturation
\* 0..300, hue -180..180, exposure -2..2 (in tenths), burn 0..100, noise 0..1
\* (in hundredths), posterize 0..8
InRange(p) ==
    /\ p.brightness \in 50..400
    /\ p.contrast \in 50..250
    /\ p.saturation \in 0..300
    /\ p.hue \in -180..180
    /\ p.exposureEV \in -20..20
    /\ p.burn \in 0..100
    /\ p.noise \in 0..100
    /\ p.posterize \in 0..8
    /\ p.preset \in {"none", "film", "lofi", "vhs", "ultra"}

\* C27: after any sequence of slider inputs within the slider bounds,
\* applyPreset, handleReset and handleMakeAnother, every ParameterSet field is
\* within its documented range; in particular every preset bundle and the
\* defaults lie within these ranges.
C27_FieldsInRange ==
    /\ InRange(params)
    /\ surface.drawn => InRange(surface.used)
    /\ \A i \in DOMAIN frameCallbacks : InRange(frameCallbacks[i].params)
    /\ \A p \in PresetType : InRange(PresetState(params, p))
    /\ InRange(ResetState(params))

\* "ultra" was applied, the brightness slider dragged to its max, and the
\* frame drawn
C27_Witness ==
    /\ params.preset = "ultra" /\ params.brightness = 400
    /\ params.exposureEV = 8 /\ params.posterize = 6
    /\ surface.drawn /\ surface.used = params

\* brightness values at which brightness / 200 and its products with the
\* channel values are exact in double arithmetic
ExactGains == (50..200) \cup {250, 300, 350, 400}

\* C28: brightness is applied exactly once across the two passes.  For every
\* brightness b in 50..400 the grade-pass factor min(b, 200) / 100 multiplied
\* by the tonal-pass factor max(1, b / 200) equals b / 100, the tonal factor is
\* 1 for every b <= 200, and the grade factor never exceeds 2.
C28_BrightnessOnce ==
    (lastFire.drew /\ surface.drawn) =>
        LET b == surface.used.brightness
            tonal == IF PassRan("Tonal") THEN ExtraGain(b) ELSE 1000
        IN  /\ surface.cssB = Min(b, 200)
            /\ surface.cssB * tonal = 1000 * b
            /\ b <= 200 => ExtraGain(b) = 1000
            /\ b > 200 => PassRan("Tonal")
            /\ surface.cssB <= 200
            /\ b \in ExactGains =>
                   \A c \in {"r", "g", "b"} :
                       surface.sample[c] = (probe[c] * Max(b, 200)) \div 200

\* brightness 300 was drawn during a scrub: 200 % in the grade pass, and the
\* pixel (100, 50, 10) written as (150, 75, 15) by the pixel pass
C28_Witness ==
    /\ lastFire.drew /\ lastFire.scrubbing /\ surface.drawn
    /\ surface.used.brightness = 300
    /\ surface.cssB = 200
    /\ PassRan("Tonal")
    /\ surface.sample = [r |-> 150, g |-> 75, b |-> 15]

\* C29: the tonal pixel pass never changes the alpha sample of any pixel and
\* never changes the buffer dimensions: for every pixel and every parameter
\* combination alpha after the pass equals alpha before, and the r, g, b
\* results do not depend on alpha.
C29_AlphaUntouched ==
    (surface.drawn /\ probe.on) =>
        /\ surface.alpha = probe.a
        /\ surface.W = Max(1, FloorScaled(surface.width, surface.previewScale))
        /\ surface.H = Max(1, FloorScaled(surface.height, surface.previewScale))
        /\ \A a \in 0..255 :
               LET px == [probe EXCEPT !.a = a]
               IN  surface.sample =
                       IF ~PassRan("Tonal") THEN [r |-> px.r, g |-> px.g, b |-> px.b]
                       ELSE IF surface.by = "App.tsx"
                       THEN AppPixel(px, surface.used, px.u)
                       ELSE TonalPixel(px, surface.used, surface.allowHeavy, px.u)

\* a half-transparent pixel went through the pixel pass of the scheduler
\* variant under burn = 100: its colour changed and its alpha did not
C29_Witness ==
    /\ surface.drawn /\ surface.by = "part_000" /\ PassRan("Tonal")
    /\ surface.used.burn = 100
    /\ probe.on /\ probe.a = 128 /\ probe.r = 200
    /\ surface.sample # [r |-> probe.r, g |-> probe.g, b |-> probe.b]
    /\ surface.alpha = 128

\* the r, g, b of the pixel followed, as it enters the pixel pass
ProbeColour == [r |-> probe.r, g |-> probe.g, b |-> probe.b]

\* C30: the two pixel-pass variants agree.  For every input pixel and every
\* brightness, exposure, posterize and noise sample, the pixel pass of
\* src/src/App.tsx (run only when needsPixel holds, identity otherwise) gives
\* the same r, g, b result as the pixel pass of the scheduler variant with
\* burn = 0 and scrubbing = false; in particular, when needsPixel is false the
\* scheduler variant's always-run pass is the identity on every pixel.
C30_VariantsAgree ==
    /\ [][(/\ AppRenderEffect
           /\ surface.drawn /\ surface.by = "part_000"
           /\ ~lastFire.scrubbing /\ surface.used.burn = 0
           /\ surface.used = params) =>
              (surface'.by = "App.tsx" /\ surface'.sample = surface.sample)]_vars
    /\ [][(/\ Refresh
           /\ surface.drawn /\ surface.by = "App.tsx"
           /\ lastFire'.drew /\ ~lastFire'.scrubbing
           /\ surface'.used = surface.used /\ surface.used.burn = 0) =>
              (surface'.by = "part_000" /\ surface'.sample = surface.sample)]_vars
    /\ []((surface.drawn /\ ~NeedsPixel(surface.used) /\ surface.used.burn = 0) =>
             /\ surface.sample = ProbeColour
             /\ surface.by = "App.tsx" => ~PassRan("Tonal")
             /\ (surface.by = "part_000" /\ surface.allowHeavy) =>
                    /\ PassRan("Tonal")
                    /\ TonalPixel(probe, surface.used, TRUE, probe.u) = ProbeColour)

\* the pixel pass of App.tsx has redrawn a frame of the scheduler variant
\* with exposure +1, posterize 8 and noise 0.08, and written the same pixel
C30_Witness ==
    /\ surface.drawn /\ surface.by = "App.tsx"
    /\ lastFire.drew /\ ~lastFire.scrubbing
    /\ surface.used = params
    /\ params.exposureEV = 10 /\ params.posterize = 8 /\ params.noise = 8
    /\ params.brightness = 201
    /\ probe.r = 100 /\ probe.u = 999
    /\ surface.passes = <<"ColorGrade", "Tonal", "Posterize", "Noise", "Blit">>
    /\ surface.sample = TonalPixel(probe, params, TRUE, probe.u)
    /\ surface.sample # ProbeColour

====
